---------------------------- MODULE Spec2Model ----------------------------
(***************************************************************************)
(* Model of the learn-cfop cube engine: the notation parser (MoveParser),  *)
(* the facelet permutation model (CubeModel), the animation queue          *)
(* (CubeAnimator) and the playback controller (CubeController).            *)
(*                                                                         *)
(* JavaScript is single threaded: a public call runs to its first await,   *)
(* and an animation's completion (a requestAnimationFrame callback) runs   *)
(* together with the microtasks it schedules, i.e. with the continuation   *)
(* of the async function that awaited it.  Each of these is one action.    *)
(***************************************************************************)
EXTENDS Integers, Sequences, FiniteSets, TLC

(***************************************************************************)
(* MoveParser.js: faces, Move, parse                                       *)
(***************************************************************************)
FACES == <<"R", "L", "U", "D", "F", "B">>

LowerFaces == <<"r", "l", "u", "d", "f", "b">>

SeqRange(s) == {s[i] : i \in 1..Len(s)}

\* String.prototype.toUpperCase on one character of the input alphabet.
toUpperCase(ch) ==
  IF \E i \in 1..Len(LowerFaces) : LowerFaces[i] = ch
  THEN FACES[CHOOSE i \in 1..Len(LowerFaces) : LowerFaces[i] = ch]
  ELSE ch

\* Mutant of IsLower: the test is made on the upper-cased character.
IsLowerOfUpper(ch) == FALSE

\* raw >= 'a' && raw <= 'z', on the input alphabet.
IsLower(ch) == ch \in SeqRange(LowerFaces) \cup {"x"}

IsSpace(ch) == ch = " "

\* new Move(face, prime, double, wide)
Move(face, prime, double, wide) ==
  [face |-> toUpperCase(face), prime |-> prime, double |-> double, wide |-> wide]

\* Mutant of inverse: the prime flag is not flipped.
inverseKeepsPrime(m) == Move(m.face, m.prime, m.double, m.wide)

\* Move.inverse()
inverse(m) ==
  IF m.double
  THEN Move(m.face, FALSE, TRUE, m.wide)
  ELSE Move(m.face, ~m.prime, FALSE, m.wide)

\* String.prototype.toLowerCase on one character of the input alphabet.
toLowerCase(ch) ==
  IF \E i \in 1..Len(FACES) : FACES[i] = ch
  THEN LowerFaces[CHOOSE i \in 1..Len(FACES) : FACES[i] = ch]
  ELSE ch

\* Mutant of moveToString: the face letter is always written in upper case.
moveToStringUpper(m) ==
  <<m.face>> \o (IF m.double THEN <<"2">> ELSE <<>>)
             \o (IF m.prime THEN <<"'">> ELSE <<>>)

\* Move.toString()
moveToString(m) ==
  <<IF m.wide THEN toLowerCase(m.face) ELSE m.face>>
    \o (IF m.double THEN <<"2">> ELSE <<>>)
    \o (IF m.prime THEN <<"'">> ELSE <<>>)

\* MoveParser.toString(moves): moves.map(m => m.toString()).join(' ')
RECURSIVE toString(_)
toString(ms) ==
  IF ms = <<>> THEN <<>>
  ELSE IF Len(ms) = 1 THEN moveToString(ms[1])
  ELSE moveToString(ms[1]) \o <<" ">> \o toString(Tail(ms))

\* Mutant of inverseMoves: the inverses are left in the order of the moves.
inverseMovesInOrder(ms) == [i \in 1..Len(ms) |-> inverse(ms[i])]

\* MoveParser.inverse(moves): moves.map(m => m.inverse()).reverse()
inverseMoves(ms) == [i \in 1..Len(ms) |-> inverse(ms[Len(ms) + 1 - i])]

\* algorithm.trim().split(/\s+/): the maximal runs of non-space characters.
RECURSIVE SplitTokens(_, _, _)
SplitTokens(text, i, cur) ==
  IF i > Len(text)
  THEN IF cur = <<>> THEN <<>> ELSE <<cur>>
  ELSE IF IsSpace(text[i])
       THEN IF cur = <<>>
            THEN SplitTokens(text, i + 1, <<>>)
            ELSE <<cur>> \o SplitTokens(text, i + 1, <<>>)
       ELSE SplitTokens(text, i + 1, Append(cur, text[i]))

\* The while loop of parse over one token; i is the source's 0-based index.
RECURSIVE ScanToken(_, _)
ScanToken(token, i) ==
  IF i >= Len(token)
  THEN <<>>
  ELSE LET raw == token[i + 1]
           ch == toUpperCase(raw)
       IN IF ch \notin SeqRange(FACES)
          THEN ScanToken(token, i + 1)
          ELSE LET wide == IsLower(raw)
                   hasNext == i + 1 < Len(token)
                   prime == hasNext /\ token[i + 2] = "'"
                   double == hasNext /\ ~prime /\ token[i + 2] = "2"
                   used == IF prime \/ double THEN 1 ELSE 0
               IN <<Move(ch, prime, double, wide)>>
                    \o ScanToken(token, i + used + 1)

RECURSIVE ParseTokens(_)
ParseTokens(tokens) ==
  IF tokens = <<>>
  THEN <<>>
  ELSE ScanToken(Head(tokens), 0) \o ParseTokens(Tail(tokens))

\* MoveParser.parse(algorithm)
parse(algorithm) ==
  IF algorithm = <<>> \/ \A i \in 1..Len(algorithm) : IsSpace(algorithm[i])
  THEN <<>>
  ELSE ParseTokens(SplitTokens(algorithm, 1, <<>>))

(***************************************************************************)
(* CubeModel.js: the 6 x 9 facelet grid and its permutations               *)
(***************************************************************************)
FACE_NAMES == <<"U", "D", "F", "B", "R", "L">>

COLORS ==
  [U |-> "white", D |-> "yellow", F |-> "green",
   B |-> "blue", R |-> "red", L |-> "orange"]

\* CubeModel.reset(): every face filled with its own colour.
SolvedFaces ==
  [name \in SeqRange(FACE_NAMES) |-> [i \in 0..8 |-> COLORS[name]]]

EDGE_CYCLES ==
  [R |-> << << <<"F", 2>>, <<"F", 5>>, <<"F", 8>> >>,
            << <<"U", 8>>, <<"U", 5>>, <<"U", 2>> >>,
            << <<"B", 6>>, <<"B", 3>>, <<"B", 0>> >>,
            << <<"D", 8>>, <<"D", 5>>, <<"D", 2>> >> >>,
   L |-> << << <<"F", 0>>, <<"F", 3>>, <<"F", 6>> >>,
            << <<"D", 6>>, <<"D", 3>>, <<"D", 0>> >>,
            << <<"B", 8>>, <<"B", 5>>, <<"B", 2>> >>,
            << <<"U", 6>>, <<"U", 3>>, <<"U", 0>> >> >>,
   U |-> << << <<"F", 0>>, <<"F", 1>>, <<"F", 2>> >>,
            << <<"L", 0>>, <<"L", 1>>, <<"L", 2>> >>,
            << <<"B", 0>>, <<"B", 1>>, <<"B", 2>> >>,
            << <<"R", 0>>, <<"R", 1>>, <<"R", 2>> >> >>,
   D |-> << << <<"F", 6>>, <<"F", 7>>, <<"F", 8>> >>,
            << <<"R", 6>>, <<"R", 7>>, <<"R", 8>> >>,
            << <<"B", 6>>, <<"B", 7>>, <<"B", 8>> >>,
            << <<"L", 6>>, <<"L", 7>>, <<"L", 8>> >> >>,
   F |-> << << <<"U", 0>>, <<"U", 1>>, <<"U", 2>> >>,
            << <<"R", 0>>, <<"R", 3>>, <<"R", 6>> >>,
            << <<"D", 8>>, <<"D", 7>>, <<"D", 6>> >>,
            << <<"L", 8>>, <<"L", 5>>, <<"L", 2>> >> >>,
   B |-> << << <<"U", 6>>, <<"U", 7>>, <<"U", 8>> >>,
            << <<"L", 6>>, <<"L", 3>>, <<"L", 0>> >>,
            << <<"D", 2>>, <<"D", 1>>, <<"D", 0>> >>,
            << <<"R", 2>>, <<"R", 5>>, <<"R", 8>> >> >>]

MIDDLE_CYCLES ==
  [R |-> << << <<"D", 1>>, <<"D", 4>>, <<"D", 7>> >>,
            << <<"F", 7>>, <<"F", 4>>, <<"F", 1>> >>,
            << <<"U", 1>>, <<"U", 4>>, <<"U", 7>> >>,
            << <<"B", 1>>, <<"B", 4>>, <<"B", 7>> >> >>,
   L |-> << << <<"D", 1>>, <<"D", 4>>, <<"D", 7>> >>,
            << <<"B", 1>>, <<"B", 4>>, <<"B", 7>> >>,
            << <<"U", 1>>, <<"U", 4>>, <<"U", 7>> >>,
            << <<"F", 7>>, <<"F", 4>>, <<"F", 1>> >> >>,
   U |-> << << <<"L", 3>>, <<"L", 4>>, <<"L", 5>> >>,
            << <<"B", 3>>, <<"B", 4>>, <<"B", 5>> >>,
            << <<"R", 3>>, <<"R", 4>>, <<"R", 5>> >>,
            << <<"F", 3>>, <<"F", 4>>, <<"F", 5>> >> >>,
   D |-> << << <<"L", 3>>, <<"L", 4>>, <<"L", 5>> >>,
            << <<"F", 3>>, <<"F", 4>>, <<"F", 5>> >>,
            << <<"R", 3>>, <<"R", 4>>, <<"R", 5>> >>,
            << <<"B", 3>>, <<"B", 4>>, <<"B", 5>> >> >>,
   F |-> << << <<"L", 1>>, <<"L", 4>>, <<"L", 7>> >>,
            << <<"U", 5>>, <<"U", 4>>, <<"U", 3>> >>,
            << <<"R", 7>>, <<"R", 4>>, <<"R", 1>> >>,
            << <<"D", 3>>, <<"D", 4>>, <<"D", 5>> >> >>,
   B |-> << << <<"L", 1>>, <<"L", 4>>, <<"L", 7>> >>,
            << <<"D", 3>>, <<"D", 4>>, <<"D", 5>> >>,
            << <<"R", 7>>, <<"R", 4>>, <<"R", 1>> >>,
            << <<"U", 5>>, <<"U", 4>>, <<"U", 3>> >> >>]

\* f[0] = temp[6]; f[1] = temp[3]; ... (the face's own 9 facelets, clockwise)
rotateFaceCW(f, faceName) ==
  LET temp == f[faceName]
      src == <<6, 3, 0, 7, 4, 1, 8, 5, 2>>
  IN [f EXCEPT ![faceName] = [i \in 0..8 |-> temp[src[i + 1]]]]

rotateFaceCCW(f, faceName) ==
  LET temp == f[faceName]
      src == <<2, 5, 8, 1, 4, 7, 0, 3, 6>>
  IN [f EXCEPT ![faceName] = [i \in 0..8 |-> temp[src[i + 1]]]]

\* Mutant of rotateFace180: the face's own facelets make a quarter turn only.
rotateFaceQuarter(f, faceName) == rotateFaceCW(f, faceName)

rotateFace180(f, faceName) ==
  LET temp == f[faceName]
      src == <<8, 7, 6, 5, 4, 3, 2, 1, 0>>
  IN [f EXCEPT ![faceName] = [i \in 0..8 |-> temp[src[i + 1]]]]

\* The inner loop of _cycle4: this.faces[df][di] = this.faces[sf][si], for each j.
RECURSIVE CopyStrip(_, _, _, _)
CopyStrip(f, dst, src, j) ==
  IF j > Len(dst)
  THEN f
  ELSE CopyStrip([f EXCEPT ![dst[j][1]][dst[j][2]] = f[src[j][1]][src[j][2]]],
                 dst, src, j + 1)

\* The outer loop of _cycle4, i = 3 down to 1 (strips are 1-based here).
RECURSIVE ShiftStrips(_, _, _)
ShiftStrips(f, strips, i) ==
  IF i <= 1
  THEN f
  ELSE ShiftStrips(CopyStrip(f, strips[i], strips[i - 1], 1), strips, i - 1)

\* Mutant of WriteStrip: the saved strip is not written back.
WriteStripNever(f, dst, temp, j) == f

\* The last loop of _cycle4: this.faces[f][idx] = temp[j].
RECURSIVE WriteStrip(_, _, _, _)
WriteStrip(f, dst, temp, j) ==
  IF j > Len(dst)
  THEN f
  ELSE WriteStrip([f EXCEPT ![dst[j][1]][dst[j][2]] = temp[j]], dst, temp, j + 1)

\* Mutant of cycle4: the last strip is not saved before it is overwritten.
cycle4NoTemp(f, strips) ==
  WriteStrip(ShiftStrips(f, strips, 4), strips[1],
             [j \in 1..Len(strips[4]) |->
                ShiftStrips(f, strips, 4)[strips[4][j][1]][strips[4][j][2]]], 1)

\* CubeModel._cycle4(strips): a -> b -> c -> d -> a
cycle4(f, strips) ==
  LET temp == [j \in 1..Len(strips[4]) |-> f[strips[4][j][1]][strips[4][j][2]]]
  IN WriteStrip(ShiftStrips(f, strips, 4), strips[1], temp, 1)

\* TRUE of every grid.  Testing it makes the model checker evaluate f before
\* it goes on, which keeps its evaluation stack shallow.
Evaluated(f) == DOMAIN f # {}

\* for (let t = 0; t < times; t++) this._cycle4(cycles)
RECURSIVE CycleTimes(_, _, _)
CycleTimes(f, strips, times) ==
  IF times = 0 \/ ~Evaluated(f)
  THEN f
  ELSE CycleTimes(cycle4(f, strips), strips, times - 1)

\* Mutant of applyEdgeCycle: one cycle, whatever the move's direction.
applyEdgeCycleOnce(f, face, times) == CycleTimes(f, EDGE_CYCLES[face], 1)

applyEdgeCycle(f, face, times) == CycleTimes(f, EDGE_CYCLES[face], times)

applyMiddleCycle(f, face, times) == CycleTimes(f, MIDDLE_CYCLES[face], times)

\* CubeModel.applyMove(move, false): the grid after the move.
applyMove(f, move) ==
  LET face == move.face
      turned == IF move.double THEN rotateFace180(f, face)
                ELSE IF ~move.prime THEN rotateFaceCW(f, face)
                ELSE rotateFaceCCW(f, face)
      times == IF move.double THEN 2 ELSE IF ~move.prime THEN 1 ELSE 3
      edged == applyEdgeCycle(turned, face, times)
  IN IF move.wide THEN applyMiddleCycle(edged, face, times) ELSE edged

\* CubeModel.applyMoves(moves, false)
RECURSIVE applyMoves(_, _)
applyMoves(f, ms) ==
  IF ms = <<>> THEN f ELSE applyMoves(applyMove(f, Head(ms)), Tail(ms))

(***************************************************************************)
(* Where the facelets sit on the cube: CubeRenderer._posToIndex gives the  *)
(* index of the facelet of a face at the cubie position (x, y, z).         *)
(***************************************************************************)
Coords == {-1, 0, 1}

posToIndex(face, x, y, z) ==
  CASE face = "U" -> (1 - z) * 3 + (x + 1)
    [] face = "D" -> (z + 1) * 3 + (x + 1)
    [] face = "F" -> (1 - y) * 3 + (x + 1)
    [] face = "B" -> (1 - y) * 3 + (1 - x)
    [] face = "R" -> (1 - y) * 3 + (1 - z)
    [] face = "L" -> (1 - y) * 3 + (z + 1)
    [] OTHER -> 0

\* The cubie positions that show a facelet of the face (its outward normal).
OnFace(face) ==
  {p \in Coords \X Coords \X Coords :
     CASE face = "R" -> p[1] = 1
       [] face = "L" -> p[1] = -1
       [] face = "U" -> p[2] = 1
       [] face = "D" -> p[2] = -1
       [] face = "F" -> p[3] = 1
       [] face = "B" -> p[3] = -1
       [] OTHER -> FALSE}

Facelets == SeqRange(FACE_NAMES) \X (0..8)

\* The cubie that carries facelet q = <<face, index>>.
CubieOf ==
  [q \in Facelets |->
     CHOOSE p \in OnFace(q[1]) : posToIndex(q[1], p[1], p[2], p[3]) = q[2]]

\* A grid whose 54 values are all different: each facelet holds its own name.
StickerGrid ==
  [name \in SeqRange(FACE_NAMES) |-> [i \in 0..8 |-> <<name, i>>]]

(***************************************************************************)
(* Bounds and inputs                                                       *)
(***************************************************************************)
\* At most this many async invocations (play loops, steps) are suspended
\* on an animation at once; a call that would suspend one more is not taken.
MaxTasks == 3

TaskIds == 1..MaxTasks

\* At most this many animations are requested between two resets of the grid
\* (loadAlgorithm, reset); a step that would request one more is not taken.
MaxRequests == 4

\* Texts handed to loadAlgorithm, as sequences of characters.
AlgTexts == { <<"R", " ", "U", "'">>, <<"f", "2">> }

SetupTexts == { <<>>, <<"L">> }

Kinds == {"play", "stepForward", "stepBackward"}

(***************************************************************************)
(* State                                                                   *)
(***************************************************************************)
VARIABLES
  moves,        \* CubeController.moves
  setupMoves,   \* CubeController.setupMoves
  currentStep,  \* CubeController.currentStep
  isPlaying,    \* CubeController.isPlaying
  playAbort,    \* CubeController._playAbort
  faces,        \* CubeModel.faces of the controller's model
  isAnimating,  \* CubeAnimator.isAnimating
  queue,        \* CubeAnimator._queue: requests {move, resolve} not yet started
  inflight,     \* animations started (requestAnimationFrame loop running), not completed
  tasks,        \* suspended async invocations: id -> kind; a request's resolve is its id
  stuck,        \* kinds of the invocations whose request was discarded unresolved
  disposed,     \* dispose() has been called
  lastOp,       \* the operation the last step performed
  out,          \* the notifications the last step emitted, in order
  err,          \* the last step threw
  requests,     \* number of animateMove calls since the grid was last reset
  callOrder,    \* history: ids of the outstanding requests, in animateMove call order
  pz,           \* history: what happened since pause() was called while Playing
  run,          \* history: the play() invocation under observation
  seen,         \* history: the last step and play-state notifications an observer got
  ld,           \* history: no play or step request since the last loadAlgorithm
  rt,           \* history: the stepForward/stepBackward pair under observation
  duration,     \* CubeAnimator.duration, in ms
  now,          \* the clock (performance.now(), the frame timestamp), in ms
  startTime,    \* startTime of the animation in flight (closure of _startAnimation)
  nextId,       \* the next request made of the animator on its own
  ah,           \* history of the animator on its own
  trail,        \* history of the moves applied to the cube model on its own
  history,      \* CubeModel.history of the model
  ret,          \* what the last undo() returned: <<>> for null, else <<move>>
  copy,         \* the CubeModel made by clone(), once there is one
  hg,           \* history: the grid each recorded move was applied to, per model
  input,        \* the text handed to MoveParser
  parsed,       \* MoveParser.parse(input)
  printed,      \* MoveParser.toString(parsed)
  reparsed,     \* MoveParser.parse(printed)
  store,        \* localStorage: the blob under STORAGE_KEY
  answer,       \* what the last ProgressTracker call returned or threw
  calls,        \* the model and animator calls of the step just committed
  cards,        \* the AlgorithmCards of the list, each with its controller
  expandedCard  \* expandedCard of initStepPage: 0 for null, else the card

vars ==
  <<moves, setupMoves, currentStep, isPlaying, playAbort, faces, isAnimating,
    queue, inflight, tasks, stuck, disposed, lastOp, out, err, requests,
    callOrder, pz, run, seen, ld, rt, duration, now, startTime, nextId, ah,
    trail, history, ret, copy, hg, input, parsed, printed, reparsed, store,
    answer, calls, cards, expandedCard>>

\* The state of the controller and what is recorded about it.
ctlVars ==
  <<moves, setupMoves, currentStep, isPlaying, playAbort, tasks, stuck,
    disposed, out, err, requests, callOrder, pz, run, seen, ld, rt, calls>>

\* The clock and what is recorded about the animator on its own.
timeVars == <<duration, now, startTime, nextId, ah>>

\* The move history of the model, its clone, and what is recorded about them.
histVars == <<history, ret, copy, hg>>

\* The parser's input and outputs.
parserVars == <<input, parsed, printed, reparsed>>

\* The progress store.
progressVars == <<store, answer>>

\* The list of algorithm cards.
uiVars == <<cards, expandedCard>>

(***************************************************************************)
(* CubeAnimator                                                            *)
(***************************************************************************)
\* CubeAnimator._startAnimation(move, resolve), up to requestAnimationFrame.
startAnimation(req, q, infl) ==
  [isAnimating |-> TRUE, queue |-> q, inflight |-> infl \cup {req}]

\* Mutant of animateMove: the isAnimating test is missing.
animateMoveNoTest(req, anim, q, infl) == startAnimation(req, q, infl)

\* CubeAnimator.animateMove(move): the executor of the returned promise.
animateMove(req, anim, q, infl) ==
  IF anim
  THEN [isAnimating |-> anim, queue |-> Append(q, req), inflight |-> infl]
  ELSE startAnimation(req, q, infl)

\* Mutant of queueShift: pop() instead of shift().
queuePop(q) == [next |-> q[Len(q)], rest |-> SubSeq(q, 1, Len(q) - 1)]

\* this._queue.shift()
queueShift(q) == [next |-> Head(q), rest |-> Tail(q)]

\* The end of the animate callback (t >= 1): isAnimating = false; resolve();
\* then the next queued request, if any, is started.
finishAnimation(req, q, infl) ==
  IF Len(q) > 0
  THEN startAnimation(queueShift(q).next, queueShift(q).rest, infl \ {req})
  ELSE [isAnimating |-> FALSE, queue |-> q, inflight |-> infl \ {req}]

\* Mutant of clearQueue: the first waiting request is left in the queue.
clearQueueKeepHead(q) == IF q = <<>> THEN q ELSE <<Head(q)>>

\* CubeAnimator.clearQueue()
clearQueue(q) == <<>>

\* this.duration = 300
NominalDuration == 300

\* The time between two animation frames.
FrameMs == NominalDuration \div 2

\* this.duration = 300 / speed, the speed given in halves (1 is 0.5x).
setSpeed(halves) == (NominalDuration * 2) \div halves

\* The animate callback: t = Math.min(elapsed / this.duration, 1); the
\* animation ends in the frame where t < 1 fails.
animationEnded(elapsed, dur) == elapsed >= dur

QueueIds(q) == {q[i].resolve : i \in 1..Len(q)}

(***************************************************************************)
(* CubeController helpers                                                  *)
(***************************************************************************)
\* _notifyStep / _notifyPlayState, with an observer registered.
notifyStep(cs, mv) == <<"step", cs, Len(mv)>>

\* Mutant of notifyPlayState: the value before the transition is reported.
notifyPlayStateStale(playing) == <<"playState", ~playing>>

notifyPlayState(playing) == <<"playState", playing>>

\* Mutant of playLoopCond: the loop stops one move early.
playLoopCondEarly(cs, mv, abort) == cs + 1 < Len(mv) /\ ~abort

\* The loop condition of play().
playLoopCond(cs, mv, abort) == cs < Len(mv) /\ ~abort

\* Mutant of playAtEnd: the cursor standing exactly at the end is missed.
playAtEndStrict(cs, mv) == cs > Len(mv)

\* The test of play() for "at the end: reset and replay".
playAtEnd(cs, mv) == cs >= Len(mv)

\* Mutant of stepForwardRejected: the isAnimating test is missing.
stepForwardRejectedNoAnim(playing, anim, cs, mv) ==
  playing \/ cs >= Len(mv)

\* The two early returns of stepForward().
stepForwardRejected(playing, anim, cs, mv) ==
  (playing \/ anim) \/ cs >= Len(mv)

\* The two early returns of stepBackward().
stepBackwardRejected(playing, anim, cs) ==
  (playing \/ anim) \/ cs <= 0

\* Mutant of SolvedPlusSetup: the setup moves are not re-applied.
SolvedNoSetup(setup) == SolvedFaces

\* model.reset(); if (setupMoves.length > 0) model.applyMoves(setupMoves, false)
SolvedPlusSetup(setup) ==
  IF Len(setup) > 0 THEN applyMoves(SolvedFaces, setup) ELSE SolvedFaces

\* The invocations whose queued request clearQueue discards: their promise is
\* never resolved, so they stay suspended for ever.
DropTasks(ts, ids) == [i \in TaskIds |-> IF i \in ids THEN "free" ELSE ts[i]]

StuckKinds(ts, ids) == {ts[i] : i \in ids}

\* The invocations suspended on a request that is in flight or queued.
Live(ts) == {i \in TaskIds : ts[i] # "free"}

DropOrder(order, ids) == SelectSeq(order, LAMBDA i : i \notin ids)

FreshId(ts) ==
  CHOOSE i \in TaskIds \ Live(ts) : \A j \in TaskIds \ Live(ts) : i <= j

StepNotes(o) == Cardinality({i \in 1..Len(o) : o[i][1] = "step"})

FalseNotes(o) ==
  Cardinality({i \in 1..Len(o) : o[i][1] = "playState" /\ o[i][2] = FALSE})

RunOff ==
  [on |-> FALSE, quiet |-> FALSE, id |-> 0, c0 |-> 0, replay |-> FALSE,
   steps |-> 0, falses |-> 0, done |-> FALSE]

PzOff == [on |-> FALSE, cur |-> 0, n |-> 0]

\* The last notification of the given kind in o, or prev when o has none.
RECURSIVE LastNote(_, _, _)
LastNote(o, kind, prev) ==
  IF o = <<>> THEN prev
  ELSE IF o[Len(o)][1] = kind THEN o[Len(o)]
  ELSE LastNote(SubSeq(o, 1, Len(o) - 1), kind, prev)

RtOff == [phase |-> "off", grid |-> SolvedFaces, c |-> 0]

AhInit ==
  [speed |-> 2, due |-> 0, done |-> <<>>, fired |-> <<>>, dropped |-> {},
   kept |-> {}]

NoCopy ==
  [exists |-> FALSE, faces |-> SolvedFaces, history |-> <<>>, shared |-> {}]

HgInit == [model |-> <<>>, copy |-> <<>>, target |-> "model", after |-> 0]

\* Mutant of executeStep: the animation is requested before the model is
\* mutated.
executeStepAnimateFirst(move) ==
  <<[call |-> "animateMove", move |-> move],
    [call |-> "applyMove", move |-> move]>>

\* _executeStep(move): this.model.applyMove(move, false), then
\* this.animator.animateMove(move).
executeStep(move) ==
  <<[call |-> "applyMove", move |-> move],
    [call |-> "animateMove", move |-> move]>>

\* stepBackward(): this.model.applyMove(inverse, false), then
\* this.animator.animateMove(inverse).
stepBackwardCalls(inv) ==
  <<[call |-> "applyMove", move |-> inv],
    [call |-> "animateMove", move |-> inv]>>

\* The list shows this many cards.
MaxCards == 2

CardIds == 1..MaxCards

\* new AlgorithmCard(item, listEl, onToggle): collapsed, no controller yet.
\* The controller's fields are kept in the card; highlight, counter and
\* button hold what the three observers were last told, emitted the last
\* step notification made after _initBody had returned.
NewCard ==
  [expanded |-> FALSE, controller |-> FALSE, isPlaying |-> FALSE,
   playAbort |-> FALSE, currentStep |-> 0, pending |-> "none",
   onStepChange |-> "none", onPlayStateChange |-> "none", ready |-> FALSE,
   emitted |-> <<>>, highlight |-> <<>>, counter |-> <<>>, button |-> <<>>]

\* localStorage.getItem(STORAGE_KEY) === null: nothing was ever stored.
NoBlob == [kind |-> "missing", ids |-> {}]

NoAnswer ==
  [op |-> "none", before |-> NoBlob, readThrows |-> FALSE,
   writeThrows |-> FALSE, threw |-> FALSE, completed |-> FALSE, count |-> 0,
   of |-> 1]

TrailOff == [phase |-> "scramble", depth |-> 0, grid |-> SolvedFaces,
             move |-> Move("U", FALSE, FALSE, FALSE), n |-> 0,
             stickers |-> StickerGrid, seq |-> <<>>]

\* What an observer of the controller has after a step: the notifications of
\* the step are delivered to onStepChange / onPlayStateChange in order.
Observed ==
  /\ seen' = [step |-> LastNote(out', "step", seen.step),
              play |-> LastNote(out', "playState", seen.play)]
  /\ ld' = IF lastOp' = "loadAlgorithm" THEN TRUE
           ELSE IF lastOp' \in {"play", "togglePlay", "stepForward", "stepBackward"}
                THEN lastOp' = "togglePlay" /\ isPlaying /\ ld
                ELSE ld
  /\ rt' = IF /\ lastOp' = "stepForward" /\ Live(tasks) = {} /\ inflight = {}
              /\ ~isPlaying /\ tasks' # tasks
           THEN [phase |-> "forward", grid |-> faces, c |-> currentStep]
           ELSE IF lastOp' = "complete" /\ rt.phase = "forward"
           THEN [rt EXCEPT !.phase = "between"]
           ELSE IF lastOp' = "stepBackward" /\ rt.phase = "between" /\ tasks' # tasks
           THEN [rt EXCEPT !.phase = "backward"]
           ELSE IF lastOp' = "complete" /\ rt.phase = "backward"
           THEN [rt EXCEPT !.phase = "done"]
           ELSE RtOff
  /\ UNCHANGED <<timeVars, trail, histVars, parserVars, progressVars, uiVars>>

(***************************************************************************)
(* Init: the state after new CubeController(container)                     *)
(***************************************************************************)
Init ==
  /\ moves = <<>>
  /\ setupMoves = <<>>
  /\ currentStep = 0
  /\ isPlaying = FALSE
  /\ playAbort = FALSE
  /\ faces = SolvedFaces
  /\ isAnimating = FALSE
  /\ queue = <<>>
  /\ inflight = {}
  /\ tasks = [i \in TaskIds |-> "free"]
  /\ stuck = {}
  /\ disposed = FALSE
  /\ lastOp = "new"
  /\ out = <<>>
  /\ err = FALSE
  /\ requests = 0
  /\ callOrder = <<>>
  /\ pz = PzOff
  /\ run = RunOff
  /\ seen = [step |-> <<>>, play |-> <<>>]
  /\ ld = FALSE
  /\ rt = RtOff
  /\ duration = NominalDuration
  /\ now = 0
  /\ startTime = 0
  /\ nextId = 1
  /\ ah = AhInit
  /\ trail = TrailOff
  /\ history = <<>>
  /\ ret = <<>>
  /\ copy = NoCopy
  /\ hg = HgInit
  /\ input = <<>>
  /\ parsed = <<>>
  /\ printed = <<>>
  /\ reparsed = <<>>
  /\ store = NoBlob
  /\ answer = NoAnswer
  /\ calls = <<>>
  /\ cards = [c \in CardIds |-> NewCard]
  /\ expandedCard = 0

(***************************************************************************)
(* CubeController operations.  After dispose() the owner drops its only    *)
(* reference to the controller (AlgorithmCard.dispose) and its buttons are *)
(* removed from the page, so no public operation follows; animations       *)
(* already started still complete.                                         *)
(***************************************************************************)
\* loadAlgorithm(algorithm, setupMoves)
LoadAlgorithm(text, setupText) ==
  /\ ~disposed
  /\ LET dropped == QueueIds(queue)
         mv == parse(text)
         setup == IF setupText # <<>> THEN parse(setupText) ELSE <<>>
     IN /\ playAbort' = TRUE
        /\ isPlaying' = FALSE
        /\ queue' = clearQueue(queue)
        /\ moves' = mv
        /\ setupMoves' = setup
        /\ currentStep' = 0
        /\ faces' = SolvedPlusSetup(setup)
        /\ out' = <<notifyPlayState(FALSE), notifyStep(0, mv)>>
        /\ tasks' = DropTasks(tasks, dropped)
        /\ stuck' = stuck \cup StuckKinds(tasks, dropped)
        /\ callOrder' = DropOrder(callOrder, dropped)
  /\ requests' = 0
  /\ lastOp' = "loadAlgorithm"
  /\ calls' = <<>>
  /\ err' = FALSE
  /\ pz' = PzOff
  /\ run' = RunOff
  /\ UNCHANGED <<isAnimating, inflight, disposed>>
  /\ Observed

\* reset()
Reset ==
  /\ ~disposed
  /\ LET dropped == QueueIds(queue)
     IN /\ playAbort' = TRUE
        /\ isPlaying' = FALSE
        /\ queue' = clearQueue(queue)
        /\ currentStep' = 0
        /\ faces' = SolvedPlusSetup(setupMoves)
        /\ out' = <<notifyPlayState(FALSE), notifyStep(0, moves)>>
        /\ tasks' = DropTasks(tasks, dropped)
        /\ stuck' = stuck \cup StuckKinds(tasks, dropped)
        /\ callOrder' = DropOrder(callOrder, dropped)
  /\ requests' = 0
  /\ lastOp' = "reset"
  /\ calls' = <<>>
  /\ err' = FALSE
  /\ pz' = PzOff
  /\ run' = RunOff
  /\ UNCHANGED <<moves, setupMoves, isAnimating, inflight, disposed>>
  /\ Observed

\* The body of pause(), called as operation op.
PauseBody(op) ==
  /\ playAbort' = TRUE
  /\ isPlaying' = FALSE
  /\ out' = <<notifyPlayState(FALSE)>>
  /\ lastOp' = op
  /\ calls' = <<>>
  /\ err' = FALSE
  /\ pz' = IF op = "dispose" THEN PzOff
            ELSE IF isPlaying THEN [on |-> TRUE, cur |-> currentStep, n |-> 0]
            ELSE pz
  /\ run' = RunOff
  /\ UNCHANGED <<moves, setupMoves, currentStep, faces, isAnimating, queue,
                 inflight, tasks, stuck, requests, callOrder>>

\* The body of play(), called as operation op, up to its first await (or to
\* its end when the loop is not entered).
PlayBody(op) ==
  /\ lastOp' = op
  /\ err' = FALSE
  /\ pz' = PzOff
  /\ UNCHANGED <<moves, setupMoves>>
  /\ IF isPlaying
     THEN /\ out' = <<>>
          /\ run' = RunOff
          /\ calls' = <<>>
          /\ UNCHANGED <<currentStep, isPlaying, playAbort, faces, isAnimating,
                         queue, inflight, tasks, stuck, requests, callOrder>>
     ELSE LET atEnd == playAtEnd(currentStep, moves)
              dropped == IF atEnd THEN QueueIds(queue) ELSE {}
              cs1 == IF atEnd THEN 0 ELSE currentStep
              f1 == IF atEnd THEN SolvedPlusSetup(setupMoves) ELSE faces
              q1 == IF atEnd THEN clearQueue(queue) ELSE queue
              ts1 == DropTasks(tasks, dropped)
              out1 == IF atEnd
                      THEN <<notifyPlayState(FALSE), notifyStep(0, moves),
                             notifyPlayState(TRUE)>>
                      ELSE <<notifyPlayState(TRUE)>>
              enters == playLoopCond(cs1, moves, FALSE)
              id == FreshId(ts1)
              move == moves[cs1 + 1]
              an == animateMove([move |-> move, resolve |-> id],
                                isAnimating, q1, inflight)
              out2 == IF enters THEN out1
                      ELSE Append(out1, notifyPlayState(FALSE))
              req1 == IF atEnd THEN 0 ELSE requests
          IN /\ enters => Live(ts1) # TaskIds /\ req1 < MaxRequests
             /\ requests' = IF enters THEN req1 + 1 ELSE req1
             /\ currentStep' = cs1
             /\ playAbort' = FALSE
             /\ isPlaying' = enters
             /\ faces' = IF enters THEN applyMove(f1, move) ELSE f1
             /\ calls' = IF enters THEN executeStep(move) ELSE <<>>
             /\ isAnimating' = IF enters THEN an.isAnimating ELSE isAnimating
             /\ queue' = IF enters THEN an.queue ELSE q1
             /\ inflight' = IF enters THEN an.inflight ELSE inflight
             /\ tasks' = IF enters THEN [ts1 EXCEPT ![id] = "play"] ELSE ts1
             /\ stuck' = stuck \cup StuckKinds(tasks, dropped)
             /\ callOrder' = IF enters
                             THEN Append(DropOrder(callOrder, dropped), id)
                             ELSE DropOrder(callOrder, dropped)
             /\ out' = out2
             /\ run' = [on |-> TRUE, quiet |-> Live(tasks) = {},
                        id |-> IF enters THEN id ELSE 0,
                        c0 |-> currentStep, replay |-> atEnd,
                        steps |-> StepNotes(out2), falses |-> FalseNotes(out2),
                        done |-> ~enters]

\* play()
Play == ~disposed /\ PlayBody("play") /\ UNCHANGED disposed /\ Observed

\* pause()
Pause == ~disposed /\ PauseBody("pause") /\ UNCHANGED disposed /\ Observed

\* togglePlay()
TogglePlay ==
  /\ ~disposed
  /\ IF isPlaying THEN PauseBody("togglePlay") ELSE PlayBody("togglePlay")
  /\ UNCHANGED disposed
  /\ Observed

\* stepForward(), up to its await.
StepForward ==
  /\ ~disposed
  /\ lastOp' = "stepForward"
  /\ err' = FALSE
  /\ pz' = PzOff
  /\ run' = RunOff
  /\ UNCHANGED <<moves, setupMoves, currentStep, isPlaying, playAbort, stuck,
                 disposed>>
  /\ IF stepForwardRejected(isPlaying, isAnimating, currentStep, moves)
     THEN /\ out' = <<>>
          /\ calls' = <<>>
          /\ UNCHANGED <<faces, isAnimating, queue, inflight, tasks, requests,
                         callOrder>>
     ELSE LET id == FreshId(tasks)
              move == moves[currentStep + 1]
              an == animateMove([move |-> move, resolve |-> id],
                                isAnimating, queue, inflight)
          IN /\ Live(tasks) # TaskIds /\ requests < MaxRequests
             /\ requests' = requests + 1
             /\ faces' = applyMove(faces, move)
             /\ calls' = executeStep(move)
             /\ isAnimating' = an.isAnimating
             /\ queue' = an.queue
             /\ inflight' = an.inflight
             /\ tasks' = [tasks EXCEPT ![id] = "stepForward"]
             /\ callOrder' = Append(callOrder, id)
             /\ out' = <<>>
  /\ Observed

\* stepBackward(), up to its await.  With the cursor past the end + 1 the
\* move read at the decremented cursor is undefined and move.inverse() throws
\* after the cursor has been decremented.
StepBackward ==
  /\ ~disposed
  /\ lastOp' = "stepBackward"
  /\ pz' = PzOff
  /\ run' = RunOff
  /\ out' = <<>>
  /\ UNCHANGED <<moves, setupMoves, isPlaying, playAbort, stuck, disposed>>
  /\ IF stepBackwardRejected(isPlaying, isAnimating, currentStep)
     THEN /\ err' = FALSE
          /\ calls' = <<>>
          /\ UNCHANGED <<currentStep, faces, isAnimating, queue, inflight,
                         tasks, requests, callOrder>>
     ELSE IF currentStep > Len(moves)
     THEN /\ currentStep' = currentStep - 1
          /\ err' = TRUE
          /\ calls' = <<>>
          /\ UNCHANGED <<faces, isAnimating, queue, inflight, tasks, requests,
                         callOrder>>
     ELSE LET id == FreshId(tasks)
              inv == inverse(moves[currentStep])
              an == animateMove([move |-> inv, resolve |-> id],
                                isAnimating, queue, inflight)
          IN /\ Live(tasks) # TaskIds /\ requests < MaxRequests
             /\ requests' = requests + 1
             /\ currentStep' = currentStep - 1
             /\ err' = FALSE
             /\ faces' = applyMove(faces, inv)
             /\ calls' = stepBackwardCalls(inv)
             /\ isAnimating' = an.isAnimating
             /\ queue' = an.queue
             /\ inflight' = an.inflight
             /\ tasks' = [tasks EXCEPT ![id] = "stepBackward"]
             /\ callOrder' = Append(callOrder, id)
  /\ Observed

\* dispose(): pause(), then renderer.dispose().
Dispose ==
  /\ ~disposed
  /\ PauseBody("dispose")
  /\ disposed' = TRUE
  /\ Observed

(***************************************************************************)
(* An animation completes: the last frame of the animate callback, and the *)
(* continuation of the invocation that awaited it (play loop or step),     *)
(* which runs as a microtask before any other event.                       *)
(***************************************************************************)
Complete(req) ==
  /\ req \in inflight
  /\ LET id == req.resolve
         kind == tasks[id]
         fin == finishAnimation(req, queue, inflight)
         cs1 == IF kind = "stepBackward" THEN currentStep ELSE currentStep + 1
         again == kind = "play" /\ playLoopCond(cs1, moves, playAbort)
         move == moves[cs1 + 1]
         an == animateMove([move |-> move, resolve |-> id],
                           fin.isAnimating, fin.queue, fin.inflight)
         out1 == IF kind = "play" /\ ~again
                 THEN <<notifyStep(cs1, moves), notifyPlayState(FALSE)>>
                 ELSE <<notifyStep(cs1, moves)>>
     IN /\ again => requests < MaxRequests
        /\ requests' = IF again THEN requests + 1 ELSE requests
        /\ currentStep' = cs1
        /\ faces' = IF again THEN applyMove(faces, move) ELSE faces
        /\ calls' = IF again THEN executeStep(move) ELSE <<>>
        /\ isAnimating' = IF again THEN an.isAnimating ELSE fin.isAnimating
        /\ queue' = IF again THEN an.queue ELSE fin.queue
        /\ inflight' = IF again THEN an.inflight ELSE fin.inflight
        /\ tasks' = IF again THEN tasks ELSE [tasks EXCEPT ![id] = "free"]
        /\ isPlaying' = IF kind = "play" /\ ~again THEN FALSE ELSE isPlaying
        /\ callOrder' = IF again
                        THEN Append(DropOrder(callOrder, {id}), id)
                        ELSE DropOrder(callOrder, {id})
        /\ out' = out1
        /\ pz' = IF pz.on THEN [pz EXCEPT !.n = pz.n + StepNotes(out1)] ELSE pz
        /\ run' = IF run.on /\ ~run.done
                  THEN [run EXCEPT !.steps = run.steps + StepNotes(out1),
                                   !.falses = run.falses + FalseNotes(out1),
                                   !.done = (id = run.id /\ ~again)]
                  ELSE run
  /\ lastOp' = "complete"
  /\ err' = FALSE
  /\ UNCHANGED <<moves, setupMoves, playAbort, stuck, disposed>>
  /\ Observed

Next ==
  \/ \E text \in AlgTexts, setupText \in SetupTexts : LoadAlgorithm(text, setupText)
  \/ Play
  \/ Pause
  \/ TogglePlay
  \/ StepForward
  \/ StepBackward
  \/ Reset
  \/ Dispose
  \/ \E req \in inflight : Complete(req)

Spec == Init /\ [][Next]_vars

(***************************************************************************)
(* The animator on its own: requests, speed changes, queue clearing and    *)
(* animation frames in any order.  A request's resolve is its number; the  *)
(* history records which were fired and which were discarded.              *)
(***************************************************************************)
\* At most this many requests are made of the animator.
MaxAnimations == 3

\* The clock stops after this many frames.
MaxFrames == 5

\* Speed multipliers in halves: 0.5x, 1x, 2x (the slider moves in halves).
Speeds == {1, 2, 4}

AnimatedMoves == SeqRange(parse(<<"R", "'">>))

\* animator.animateMove(move)
AnimateMove(move) ==
  /\ nextId <= MaxAnimations
  /\ LET an == animateMove([move |-> move, resolve |-> nextId],
                           isAnimating, queue, inflight)
     IN /\ isAnimating' = an.isAnimating
        /\ queue' = an.queue
        /\ inflight' = an.inflight
        /\ startTime' = IF isAnimating THEN startTime ELSE now
        /\ ah' = IF isAnimating THEN ah
                 ELSE [ah EXCEPT !.due = now + setSpeed(ah.speed)]
  /\ nextId' = nextId + 1
  /\ lastOp' = "animateMove"
  /\ UNCHANGED <<histVars, parserVars, progressVars, uiVars>>
  /\ UNCHANGED <<ctlVars, faces, duration, now, trail>>

\* animator.setSpeed(speed)
SetSpeed(halves) ==
  /\ duration' = setSpeed(halves)
  /\ ah' = [ah EXCEPT !.speed = halves]
  /\ lastOp' = "setSpeed"
  /\ UNCHANGED <<histVars, parserVars, progressVars, uiVars>>
  /\ UNCHANGED <<ctlVars, faces, isAnimating, queue, inflight, now, startTime,
                 nextId, trail>>

\* animator.clearQueue()
ClearQueue ==
  /\ queue' = clearQueue(queue)
  /\ ah' = [ah EXCEPT !.dropped = @ \cup (QueueIds(queue) \ QueueIds(queue')),
                      !.kept = @ \cup {req.resolve : req \in inflight}]
  /\ lastOp' = "clearQueue"
  /\ UNCHANGED <<histVars, parserVars, progressVars, uiVars>>
  /\ UNCHANGED <<ctlVars, faces, isAnimating, inflight, duration, now,
                 startTime, nextId, trail>>

\* One frame interval passes and the animate callback of the animation in
\* flight, if any, runs with the new timestamp.
Frame ==
  /\ now < MaxFrames * FrameMs
  /\ now' = now + FrameMs
  /\ lastOp' = "frame"
  /\ UNCHANGED <<histVars, parserVars, progressVars, uiVars>>
  /\ UNCHANGED <<ctlVars, faces, duration, nextId, trail>>
  /\ IF inflight = {}
     THEN UNCHANGED <<isAnimating, queue, inflight, startTime, ah>>
     ELSE \E req \in inflight :
            IF ~animationEnded(now' - startTime, duration)
            THEN UNCHANGED <<isAnimating, queue, inflight, startTime, ah>>
            ELSE LET fin == finishAnimation(req, queue, inflight)
                     starts == Len(queue) > 0
                 IN /\ isAnimating' = fin.isAnimating
                    /\ queue' = fin.queue
                    /\ inflight' = fin.inflight
                    /\ startTime' = IF starts THEN now' ELSE startTime
                    /\ ah' = [ah EXCEPT
                                !.fired = Append(@, req.resolve),
                                !.done = <<ah.due, now'>>,
                                !.due = IF starts THEN now' + setSpeed(ah.speed)
                                        ELSE @]

NextAnimator ==
  \/ \E move \in AnimatedMoves : AnimateMove(move)
  \/ \E halves \in Speeds : SetSpeed(halves)
  \/ ClearQueue
  \/ Frame

SpecAnimator == Init /\ [][NextAnimator]_vars

(***************************************************************************)
(* The cube model on its own: a scramble from solved, then one move        *)
(* applied, and either applied again (up to 4 times) or undone by its      *)
(* inverse.  The history keeps the grid the move was first applied to.     *)
(***************************************************************************)
\* The scramble has at most this many moves.
MaxScramble == 2

ScrambleMoves ==
  SeqRange(parse(<<"R", " ", "U", "'", " ", "f", "2", " ", "L", " ", "d", "'",
                   " ", "B", "2">>))

\* Every move the notation can express: 6 faces, plain / prime / double,
\* wide or not.
AllMoves ==
  {m \in {Move(FACES[i], prime, double, wide) :
            i \in 1..Len(FACES), prime \in BOOLEAN, double \in BOOLEAN,
            wide \in BOOLEAN} : ~(m.prime /\ m.double)}

\* model.applyMove(move) while scrambling
Scramble(move) ==
  /\ trail.phase = "scramble"
  /\ trail.depth < MaxScramble
  /\ faces' = applyMove(faces, move)
  /\ trail' = [trail EXCEPT !.depth = @ + 1,
                            !.stickers = applyMove(@, move)]
  /\ lastOp' = "scramble"
  /\ UNCHANGED <<histVars, parserVars, progressVars, uiVars>>
  /\ UNCHANGED <<ctlVars, timeVars, isAnimating, queue, inflight>>

\* model.applyMove(move) on the scrambled grid
Turn(move) ==
  /\ trail.phase = "scramble"
  /\ faces' = applyMove(faces, move)
  /\ trail' = [trail EXCEPT !.phase = "turned", !.grid = faces,
                            !.move = move, !.n = 1,
                            !.stickers = applyMove(@, move)]
  /\ lastOp' = "applyMove"
  /\ UNCHANGED <<histVars, parserVars, progressVars, uiVars>>
  /\ UNCHANGED <<ctlVars, timeVars, isAnimating, queue, inflight>>

\* model.applyMove(move) with the same move again
TurnAgain ==
  /\ trail.phase = "turned"
  /\ trail.n < 4
  /\ faces' = applyMove(faces, trail.move)
  /\ trail' = [trail EXCEPT !.n = @ + 1,
                            !.stickers = applyMove(@, trail.move)]
  /\ lastOp' = "applyMove"
  /\ UNCHANGED <<histVars, parserVars, progressVars, uiVars>>
  /\ UNCHANGED <<ctlVars, timeVars, isAnimating, queue, inflight>>

\* model.applyMove(move.inverse())
TurnBack ==
  /\ trail.phase = "turned"
  /\ trail.n = 1
  /\ faces' = applyMove(faces, inverse(trail.move))
  /\ trail' = [trail EXCEPT !.phase = "undone",
                            !.stickers = applyMove(@, inverse(trail.move))]
  /\ lastOp' = "applyInverse"
  /\ UNCHANGED <<histVars, parserVars, progressVars, uiVars>>
  /\ UNCHANGED <<ctlVars, timeVars, isAnimating, queue, inflight>>

\* The sequences that are applied and then inverted.
InvertedSequences ==
  {parse(<<"R", " ", "u", "'", " ", "F", "2">>),
   parse(<<"l", "2", " ", "D", " ", "b", "'">>),
   parse(<<"U", "'">>)}

\* model.applyMoves(s) on the scrambled grid
ApplySequence(s) ==
  /\ trail.phase = "scramble"
  /\ faces' = applyMoves(faces, s)
  /\ trail' = [trail EXCEPT !.phase = "sequence", !.grid = faces, !.seq = s,
                            !.stickers = applyMoves(@, s)]
  /\ lastOp' = "applyMoves"
  /\ UNCHANGED <<histVars, parserVars, progressVars, uiVars>>
  /\ UNCHANGED <<ctlVars, timeVars, isAnimating, queue, inflight>>

\* model.applyMoves(MoveParser.inverse(s)) after s
ApplyInverse ==
  /\ trail.phase = "sequence"
  /\ faces' = applyMoves(faces, inverseMoves(trail.seq))
  /\ trail' = [trail EXCEPT !.phase = "inverted",
                            !.stickers = applyMoves(@, inverseMoves(trail.seq))]
  /\ lastOp' = "applyInverse"
  /\ UNCHANGED <<histVars, parserVars, progressVars, uiVars>>
  /\ UNCHANGED <<ctlVars, timeVars, isAnimating, queue, inflight>>

\* model.applyMoves(MoveParser.inverse(MoveParser.inverse(s))) on the
\* scrambled grid
ApplyInverseOfInverse(s) ==
  /\ trail.phase = "scramble"
  /\ faces' = applyMoves(faces, inverseMoves(inverseMoves(s)))
  /\ trail' = [trail EXCEPT !.phase = "twice", !.grid = faces, !.seq = s,
                            !.stickers =
                              applyMoves(@, inverseMoves(inverseMoves(s)))]
  /\ lastOp' = "applyMoves"
  /\ UNCHANGED <<histVars, parserVars, progressVars, uiVars>>
  /\ UNCHANGED <<ctlVars, timeVars, isAnimating, queue, inflight>>

NextCube ==
  \/ \E move \in ScrambleMoves : Scramble(move)
  \/ \E move \in AllMoves : Turn(move)
  \/ TurnAgain
  \/ TurnBack
  \/ \E s \in InvertedSequences : ApplySequence(s)
  \/ ApplyInverse
  \/ \E s \in InvertedSequences : ApplyInverseOfInverse(s)

SpecCube == Init /\ [][NextCube]_vars

(***************************************************************************)
(* The cube model with its move history, and its clone: recorded moves,    *)
(* undo, reset and clone in any order, on the model and on the clone.  A   *)
(* CubeModel is a record of its faces and its history; the clone also      *)
(* tells which of its face arrays are the very arrays of the model, since  *)
(* every move writes into the arrays in place.                             *)
(***************************************************************************)
\* A history holds at most this many moves.
MaxHistory == 2

\* At most this many operations follow clone().
MaxAfterClone == 2

Targets == {"model", "copy"}

RecordedMoves == SeqRange(parse(<<"R", " ", "u", "'", " ", "F", "2">>))

RecordedSequences == {parse(<<"u", "'", " ", "F", "2">>)}

\* if (recordHistory) this.history.push(move)
recordHistory(h, move, rec) == IF rec THEN Append(h, move) ELSE h

\* CubeModel.applyMove(move, recordHistory) on a model
modelApplyMove(m, move, rec) ==
  [faces |-> applyMove(m.faces, move),
   history |-> recordHistory(m.history, move, rec)]

\* CubeModel.applyMoves(moves, recordHistory) on a model
RECURSIVE modelApplyMoves(_, _, _)
modelApplyMoves(m, ms, rec) ==
  IF ms = <<>> THEN m
  ELSE modelApplyMoves(modelApplyMove(m, Head(ms), rec), Tail(ms), rec)

\* Mutant of undo: the inverse is applied with recordHistory left at its
\* default, so it is pushed onto the history.
undoRecording(m) ==
  IF Len(m.history) = 0
  THEN [faces |-> m.faces, history |-> m.history, ret |-> <<>>]
  ELSE LET move == m.history[Len(m.history)]
           popped == SubSeq(m.history, 1, Len(m.history) - 1)
           undone == modelApplyMove([faces |-> m.faces, history |-> popped],
                                    inverse(move), TRUE)
       IN [faces |-> undone.faces, history |-> undone.history, ret |-> <<move>>]

\* CubeModel.undo(): the model afterwards and the value returned.
undo(m) ==
  IF Len(m.history) = 0
  THEN [faces |-> m.faces, history |-> m.history, ret |-> <<>>]
  ELSE LET move == m.history[Len(m.history)]
           popped == SubSeq(m.history, 1, Len(m.history) - 1)
           undone == modelApplyMove([faces |-> m.faces, history |-> popped],
                                    inverse(move), FALSE)
       IN [faces |-> undone.faces, history |-> undone.history, ret |-> <<move>>]

\* Mutant of clone: the face arrays are assigned, not copied.
cloneShallow(m) ==
  [exists |-> TRUE, faces |-> m.faces, history |-> <<>>,
   shared |-> SeqRange(FACE_NAMES)]

\* CubeModel.clone(): a new CubeModel (empty history) whose face arrays are
\* fresh copies, element by element, of this model's.
clone(m) ==
  [exists |-> TRUE,
   faces |-> [name \in SeqRange(FACE_NAMES) |->
                [i \in 0..8 |-> m.faces[name][i]]],
   history |-> <<>>,
   shared |-> {}]

\* The grids of another model after this model's arrays were written in
\* place: the arrays the two share show the new contents.
Sync(other, written, sharedFaces) ==
  [name \in SeqRange(FACE_NAMES) |->
     IF name \in sharedFaces THEN written[name] ELSE other[name]]

ModelOf(t) ==
  IF t = "model" THEN [faces |-> faces, history |-> history]
  ELSE [faces |-> copy.faces, history |-> copy.history]

\* Model t becomes m2; inPlace tells whether its arrays were written in
\* place (moves) or replaced by new arrays (reset).
Put(t, m2, inPlace) ==
  LET sharedFaces == IF inPlace THEN copy.shared ELSE {}
  IN IF t = "model"
     THEN /\ faces' = m2.faces
          /\ history' = m2.history
          /\ copy' = [copy EXCEPT !.faces = Sync(@, m2.faces, sharedFaces),
                                  !.shared = sharedFaces]
     ELSE /\ copy' = [copy EXCEPT !.faces = m2.faces,
                                  !.history = m2.history,
                                  !.shared = sharedFaces]
          /\ faces' = Sync(faces, m2.faces, sharedFaces)
          /\ history' = history

\* The operation is one on an existing model and within the bounds.
MayOperate(t) ==
  /\ t = "copy" => copy.exists
  /\ copy.exists => hg.after < MaxAfterClone

Operated(t, stack) ==
  hg' = [hg EXCEPT ![t] = stack, !.target = t,
                   !.after = IF copy.exists THEN @ + 1 ELSE @]

\* The grids a sequence of moves is applied to, one per move.
RECURSIVE GridsBefore(_, _)
GridsBefore(f, ms) ==
  IF ms = <<>> THEN <<>>
  ELSE <<f>> \o GridsBefore(applyMove(f, Head(ms)), Tail(ms))

OtherUnchanged ==
  UNCHANGED <<ctlVars, timeVars, parserVars, progressVars, uiVars, trail,
              isAnimating, queue, inflight>>

\* model.applyMove(move)
ApplyRecorded(t, move) ==
  /\ MayOperate(t)
  /\ Len(ModelOf(t).history) < MaxHistory
  /\ Put(t, modelApplyMove(ModelOf(t), move, TRUE), TRUE)
  /\ Operated(t, Append(hg[t], ModelOf(t).faces))
  /\ ret' = ret
  /\ lastOp' = "applyMove"
  /\ OtherUnchanged

\* model.applyMoves(moves)
ApplyRecordedMoves(t, ms) ==
  /\ MayOperate(t)
  /\ Len(ModelOf(t).history) + Len(ms) <= MaxHistory
  /\ Put(t, modelApplyMoves(ModelOf(t), ms, TRUE), TRUE)
  /\ Operated(t, hg[t] \o GridsBefore(ModelOf(t).faces, ms))
  /\ ret' = ret
  /\ lastOp' = "applyMoves"
  /\ OtherUnchanged

\* model.undo()
Undo(t) ==
  /\ MayOperate(t)
  /\ LET u == undo(ModelOf(t))
     IN /\ Put(t, u, TRUE)
        /\ ret' = u.ret
  /\ Operated(t, SubSeq(hg[t], 1, Len(hg[t]) - 1))
  /\ lastOp' = "undo"
  /\ OtherUnchanged

\* model.reset()
ResetModel(t) ==
  /\ MayOperate(t)
  /\ Put(t, [faces |-> SolvedFaces, history |-> <<>>], FALSE)
  /\ Operated(t, <<>>)
  /\ ret' = ret
  /\ lastOp' = "model.reset"
  /\ OtherUnchanged

\* copy = model.clone()
Clone ==
  /\ ~copy.exists
  /\ copy' = clone(ModelOf("model"))
  /\ hg' = [hg EXCEPT !.copy = <<>>, !.target = "model"]
  /\ lastOp' = "clone"
  /\ UNCHANGED <<faces, history, ret>>
  /\ OtherUnchanged

NextHistory ==
  \/ \E t \in Targets, move \in RecordedMoves : ApplyRecorded(t, move)
  \/ \E t \in Targets, ms \in RecordedSequences : ApplyRecordedMoves(t, ms)
  \/ \E t \in Targets : Undo(t)
  \/ \E t \in Targets : ResetModel(t)
  \/ Clone

SpecHistory == Init /\ [][NextHistory]_vars

(***************************************************************************)
(* The parser on its own: a text is typed character by character, parsed,  *)
(* written back with toString and parsed again.                            *)
(***************************************************************************)
\* A text has at most this many characters.
MaxLen == 5

\* A wide and a plain face letter, the two modifiers, whitespace and a
\* character the notation does not know.
Alphabet == {"r", "U", "'", "2", " ", "x"}

HistoryUnchanged == UNCHANGED <<histVars, faces, trail>>

\* One more character of the text.
Type(ch) ==
  /\ lastOp \in {"new", "type"}
  /\ Len(input) < MaxLen
  /\ input' = Append(input, ch)
  /\ lastOp' = "type"
  /\ UNCHANGED <<parsed, printed, reparsed>>
  /\ HistoryUnchanged
  /\ UNCHANGED <<ctlVars, timeVars, progressVars, uiVars, isAnimating, queue,
                 inflight>>

\* MoveParser.parse(text)
Parse ==
  /\ lastOp \in {"new", "type"}
  /\ parsed' = parse(input)
  /\ lastOp' = "parse"
  /\ UNCHANGED <<input, printed, reparsed>>
  /\ HistoryUnchanged
  /\ UNCHANGED <<ctlVars, timeVars, progressVars, uiVars, isAnimating, queue,
                 inflight>>

\* MoveParser.toString(moves) of the parsed moves
WriteBack ==
  /\ lastOp = "parse"
  /\ printed' = toString(parsed)
  /\ lastOp' = "toString"
  /\ UNCHANGED <<input, parsed, reparsed>>
  /\ HistoryUnchanged
  /\ UNCHANGED <<ctlVars, timeVars, progressVars, uiVars, isAnimating, queue,
                 inflight>>

\* MoveParser.parse of the text written by toString
Reparse ==
  /\ lastOp = "toString"
  /\ reparsed' = parse(printed)
  /\ lastOp' = "reparse"
  /\ UNCHANGED <<input, parsed, printed>>
  /\ HistoryUnchanged
  /\ UNCHANGED <<ctlVars, timeVars, progressVars, uiVars, isAnimating, queue,
                 inflight>>

NextParser ==
  \/ \E ch \in Alphabet : Type(ch)
  \/ Parse
  \/ WriteBack
  \/ Reparse

SpecParser == Init /\ [][NextParser]_vars

(***************************************************************************)
(* ProgressTracker.js: the learned algorithms kept in localStorage.  The   *)
(* blob under STORAGE_KEY is missing, or text that is not JSON, or the     *)
(* JSON text of a number, or the JSON text of an object whose keys are the *)
(* learned ids.  localStorage.getItem and setItem may throw (storage       *)
(* disabled, quota exceeded); whether they do is chosen for each call.     *)
(***************************************************************************)
AlgorithmIds == {"f2l-1", "oll-1", "pll-1"}

Blobs ==
  {[kind |-> k, ids |-> {}] : k \in {"missing", "corrupt", "number"}}
    \cup {[kind |-> "object", ids |-> S] : S \in SUBSET AlgorithmIds}

\* JSON.parse(blob) || {} inside try / catch: what _getAll returns.  A
\* throwing getItem and a throwing JSON.parse both end in the catch.
getAll(blob, readThrows) ==
  IF readThrows \/ blob.kind \in {"missing", "corrupt"}
  THEN [kind |-> "object", ids |-> {}]
  ELSE blob

\* data[id] = true throws a TypeError in module (strict) code when data is a
\* number.
assignThrows(data, done) == done /\ data.kind = "number"

\* data[id] = true, or delete data[id]
assigned(data, id, done) ==
  IF data.kind = "number" THEN data
  ELSE IF done THEN [data EXCEPT !.ids = @ \cup {id}]
  ELSE [data EXCEPT !.ids = @ \ {id}]

\* ProgressTracker.setCompleted(id, done) propagates what data[id] = true and
\* _saveAll throw: _saveAll has no try / catch.
setCompletedThrows(data, done, writeThrows) ==
  assignThrows(data, done) \/ writeThrows

\* ids.filter(id => data[id]).length
countCompleted(data, ids) == Cardinality({id \in ids : id \in data.ids})

ProgressUnchanged ==
  /\ HistoryUnchanged
  /\ UNCHANGED <<ctlVars, timeVars, parserVars, uiVars, isAnimating, queue,
                 inflight>>

\* Another tab, an older version or the user replaces the stored blob.
Overwrite(blob) ==
  /\ blob # store
  /\ store' = blob
  /\ answer' = NoAnswer
  /\ lastOp' = "overwrite"
  /\ ProgressUnchanged

\* ProgressTracker.isCompleted(id)
IsCompleted(id, readThrows) ==
  /\ answer' = [NoAnswer EXCEPT !.op = "isCompleted", !.before = store,
                                !.readThrows = readThrows,
                                !.completed = id \in getAll(store, readThrows).ids]
  /\ lastOp' = "isCompleted"
  /\ UNCHANGED store
  /\ ProgressUnchanged

\* ProgressTracker.setCompleted(id, done)
SetCompleted(id, done, readThrows, writeThrows) ==
  LET data == getAll(store, readThrows)
      throws == setCompletedThrows(data, done, writeThrows)
  IN /\ store' = IF throws THEN store ELSE assigned(data, id, done)
     /\ answer' = [NoAnswer EXCEPT !.op = "setCompleted", !.before = store,
                                   !.readThrows = readThrows,
                                   !.writeThrows = writeThrows,
                                   !.threw = throws]
     /\ lastOp' = "setCompleted"
     /\ ProgressUnchanged

\* ProgressTracker.countCompleted(ids)
CountCompleted(ids, readThrows) ==
  /\ answer' = [NoAnswer EXCEPT !.op = "countCompleted", !.before = store,
                                !.readThrows = readThrows,
                                !.count = countCompleted(getAll(store, readThrows), ids)]
  /\ lastOp' = "countCompleted"
  /\ UNCHANGED store
  /\ ProgressUnchanged

\* ProgressTracker.getProgress(ids): the fraction count / of, 0 for no ids.
GetProgress(ids, readThrows) ==
  /\ answer' = IF ids = {}
               THEN [NoAnswer EXCEPT !.op = "getProgress", !.before = store]
               ELSE [NoAnswer EXCEPT !.op = "getProgress", !.before = store,
                                     !.readThrows = readThrows,
                                     !.count = countCompleted(getAll(store, readThrows), ids),
                                     !.of = Cardinality(ids)]
  /\ lastOp' = "getProgress"
  /\ UNCHANGED store
  /\ ProgressUnchanged

NextProgress ==
  \/ \E blob \in Blobs : Overwrite(blob)
  \/ \E id \in AlgorithmIds, readThrows \in BOOLEAN : IsCompleted(id, readThrows)
  \/ \E id \in AlgorithmIds, done, readThrows, writeThrows \in BOOLEAN :
       SetCompleted(id, done, readThrows, writeThrows)
  \/ \E ids \in SUBSET AlgorithmIds, readThrows \in BOOLEAN :
       CountCompleted(ids, readThrows)
  \/ \E ids \in SUBSET AlgorithmIds, readThrows \in BOOLEAN :
       GetProgress(ids, readThrows)

SpecProgress == Init /\ [][NextProgress]_vars

(***************************************************************************)
(* The list of algorithm cards of a step page: AlgorithmCard.js, the       *)
(* onToggle callback of renderCards and PlayerControls.js.  Each card has  *)
(* its own controller, created when the card is first expanded.  Of the    *)
(* controller the card spec keeps the cursor, the playing flags, the       *)
(* invocation that awaits an animation, and the two observer properties,   *)
(* each of which holds one handler.  The buttons of a card are pressed     *)
(* while it is expanded, and play is pressed while no animation runs.      *)
(***************************************************************************)
\* MoveParser.parse(this.data.algorithm)
CardMoves == parse(<<"R", " ", "U", "'">>)

\* _notifyStep(): if (this.onStepChange) this.onStepChange(currentStep, total)
cardNotifyStep(k) ==
  LET k1 == IF k.ready THEN [k EXCEPT !.emitted = <<k.currentStep>>] ELSE k
  IN IF k.onStepChange = "highlight"
     THEN [k1 EXCEPT !.highlight = <<k.currentStep>>]
     ELSE IF k.onStepChange = "counter"
     THEN [k1 EXCEPT !.counter = <<k.currentStep>>]
     ELSE k1

\* _notifyPlayState()
cardNotifyPlayState(k) ==
  IF k.onPlayStateChange = "button"
  THEN [k EXCEPT !.button = <<k.isPlaying>>]
  ELSE k

\* controller.pause()
cardPause(k) ==
  cardNotifyPlayState([k EXCEPT !.playAbort = TRUE, !.isPlaying = FALSE])

\* controller.reset(), and loadAlgorithm of the card's own algorithm
cardReset(k) ==
  cardNotifyStep(cardNotifyPlayState(
    [k EXCEPT !.playAbort = TRUE, !.isPlaying = FALSE, !.currentStep = 0]))

\* controller.play(), up to its first await
cardPlay(k) ==
  IF k.isPlaying THEN k
  ELSE LET k0 == IF playAtEnd(k.currentStep, CardMoves) THEN cardReset(k) ELSE k
           k1 == cardNotifyPlayState(
                   [k0 EXCEPT !.isPlaying = TRUE, !.playAbort = FALSE])
       IN IF playLoopCond(k1.currentStep, CardMoves, FALSE)
          THEN [k1 EXCEPT !.pending = "play"]
          ELSE cardNotifyPlayState([k1 EXCEPT !.isPlaying = FALSE])

\* controller.togglePlay()
cardTogglePlay(k) == IF k.isPlaying THEN cardPause(k) ELSE cardPlay(k)

\* controller.stepForward(), up to its await
cardStepForward(k) ==
  IF stepForwardRejected(k.isPlaying, k.pending # "none", k.currentStep,
                         CardMoves)
  THEN k
  ELSE [k EXCEPT !.pending = "stepForward"]

\* controller.stepBackward(), up to its await
cardStepBackward(k) ==
  IF stepBackwardRejected(k.isPlaying, k.pending # "none", k.currentStep)
  THEN k
  ELSE [k EXCEPT !.pending = "stepBackward", !.currentStep = @ - 1]

\* The animation ends and the invocation that awaited it goes on.
cardComplete(k) ==
  LET k1 == IF k.pending = "stepBackward" THEN k
            ELSE [k EXCEPT !.currentStep = @ + 1]
      k2 == cardNotifyStep(k1)
  IN IF k.pending # "play" THEN [k2 EXCEPT !.pending = "none"]
     ELSE IF playLoopCond(k2.currentStep, CardMoves, k2.playAbort) THEN k2
     ELSE cardNotifyPlayState([k2 EXCEPT !.isPlaying = FALSE,
                                         !.pending = "none"])

\* AlgorithmCard.collapse()
collapse(k) ==
  LET k1 == [k EXCEPT !.expanded = FALSE]
  IN IF k1.controller THEN cardPause(k1) ELSE k1

\* AlgorithmCard._initBody(): the controller is reset when there is one;
\* else it is made, the algorithm loaded, the highlight handler assigned to
\* onStepChange, and PlayerControls._bind assigns its step counter to
\* onStepChange and its button label to onPlayStateChange.
initBody(k) ==
  IF k.controller THEN cardReset(k)
  ELSE LET made == [k EXCEPT !.controller = TRUE]
           loaded == cardReset(made)
           lit == [loaded EXCEPT !.onStepChange = "highlight"]
           bound == [lit EXCEPT !.onStepChange = "counter",
                                !.onPlayStateChange = "button"]
       IN [bound EXCEPT !.ready = TRUE]

\* AlgorithmCard.expand()
expand(k) == initBody([k EXCEPT !.expanded = TRUE])

\* Mutant of onToggle: the previously expanded card is left as it is.
onToggleKeepsPrevious(cs, previous, thisCard) == cs

\* The onToggle callback of renderCards: collapse the previous card.
onToggle(cs, previous, thisCard) ==
  IF previous # 0 /\ previous # thisCard
  THEN [cs EXCEPT ![previous] = collapse(@)]
  ELSE cs

CardsUnchanged ==
  /\ HistoryUnchanged
  /\ UNCHANGED <<ctlVars, timeVars, parserVars, progressVars, isAnimating,
                 queue, inflight>>

\* A click on the header of card c: AlgorithmCard.toggle()
ClickHeader(c) ==
  /\ IF cards[c].expanded
     THEN /\ cards' = [cards EXCEPT ![c] = collapse(@)]
          /\ UNCHANGED expandedCard
     ELSE /\ cards' = [onToggle(cards, expandedCard, c) EXCEPT ![c] = expand(@)]
          /\ expandedCard' = c
  /\ lastOp' = "toggle"
  /\ CardsUnchanged

\* A click on the play button of the expanded card c
ClickPlay(c) ==
  /\ cards[c].expanded /\ cards[c].controller
  /\ ~cards[c].isPlaying => cards[c].pending = "none"
  /\ cards' = [cards EXCEPT ![c] = cardTogglePlay(@)]
  /\ lastOp' = "togglePlay"
  /\ UNCHANGED expandedCard
  /\ CardsUnchanged

\* A click on the step forward button of the expanded card c
ClickNext(c) ==
  /\ cards[c].expanded /\ cards[c].controller
  /\ cards' = [cards EXCEPT ![c] = cardStepForward(@)]
  /\ lastOp' = "stepForward"
  /\ UNCHANGED expandedCard
  /\ CardsUnchanged

\* A click on the step back button of the expanded card c
ClickPrev(c) ==
  /\ cards[c].expanded /\ cards[c].controller
  /\ cards' = [cards EXCEPT ![c] = cardStepBackward(@)]
  /\ lastOp' = "stepBackward"
  /\ UNCHANGED expandedCard
  /\ CardsUnchanged

\* A click on the reset button of the expanded card c
ClickReset(c) ==
  /\ cards[c].expanded /\ cards[c].controller
  /\ cards' = [cards EXCEPT ![c] = cardReset(@)]
  /\ lastOp' = "reset"
  /\ UNCHANGED expandedCard
  /\ CardsUnchanged

\* The animation of card c's controller ends.
AnimationEnds(c) ==
  /\ cards[c].pending # "none"
  /\ cards' = [cards EXCEPT ![c] = cardComplete(@)]
  /\ lastOp' = "complete"
  /\ UNCHANGED expandedCard
  /\ CardsUnchanged

\* renderCards(tier): the cards are disposed and made anew.
RenderCards ==
  /\ cards' = [c \in CardIds |-> NewCard]
  /\ expandedCard' = 0
  /\ lastOp' = "renderCards"
  /\ CardsUnchanged

NextCards ==
  \/ \E c \in CardIds : ClickHeader(c)
  \/ \E c \in CardIds : ClickPlay(c)
  \/ \E c \in CardIds : ClickNext(c)
  \/ \E c \in CardIds : ClickPrev(c)
  \/ \E c \in CardIds : ClickReset(c)
  \/ \E c \in CardIds : AnimationEnds(c)
  \/ RenderCards

SpecCards == Init /\ [][NextCards]_vars

(***************************************************************************)
(* Properties                                                              *)
(***************************************************************************)
Min(a, b) == IF a < b THEN a ELSE b

\* The grid the cursor stands for: solved, the setup moves, then the first
\* currentStep moves of the algorithm.
CursorGrid ==
  applyMoves(SolvedPlusSetup(setupMoves),
             SubSeq(moves, 1, Min(currentStep, Len(moves))))

\* C1: whenever no play loop or step is awaiting an animation, the grid is
\* solved + setup moves + moves[0 .. currentStep-1].
C1_CursorInvariant == Live(tasks) = {} => faces = CursorGrid

\* C2: steps are serialized: no play-loop iteration or step begins while an
\* earlier one is still awaiting its animation, so at most one invocation is
\* ever suspended on an animation.
C2_StepsSerialized == Cardinality(Live(tasks)) <= 1

\* C3: at most one animation is in flight at any time, and isAnimating says
\* whether one is.
C3_SingleInFlight ==
  /\ Cardinality(inflight) <= 1
  /\ isAnimating <=> inflight # {}

\* C3 witness: a request arrived while an animation was in flight and waits.
C3_Witness == inflight # {} /\ Len(queue) >= 1

\* C4: requests are served in FIFO order: with nothing in flight nothing is
\* pending (a request made then starts at once), and otherwise the request in
\* flight is the oldest outstanding one and the queue holds the others in the
\* order animateMove was called.
C4_Fifo ==
  IF inflight = {}
  THEN queue = <<>> /\ callOrder = <<>>
  ELSE \E req \in inflight :
         callOrder = <<req.resolve>> \o [i \in 1..Len(queue) |-> queue[i].resolve]

\* C4 witness: a completion has started the head of the queue while a later
\* request is still waiting behind it.
C4_Witness == lastOp = "complete" /\ inflight # {} /\ Len(queue) >= 1

\* C5: 0 <= currentStep <= moves.length, and every step notification
\* carries (current, total) with 0 <= current <= total.
C5_CursorInRange ==
  /\ currentStep \in 0..Len(moves)
  /\ \A i \in 1..Len(out) :
       out[i][1] = "step" => 0 <= out[i][2] /\ out[i][2] <= out[i][3]

\* C6: after dispose() has returned the controller emits no step and no
\* play-state notification.
C6_SilentAfterDispose == (disposed /\ lastOp # "dispose") => out = <<>>

\* C7: after pause() is called while Playing, and as long as no play, step,
\* load or reset call follows, the grid is not mutated, no animation is
\* requested, the cursor advances by at most one and at most one step
\* notification is emitted.
C7_PauseCooperative ==
  [][(pz.on /\ pz'.on) =>
       /\ faces' = faces
       /\ requests' = requests
       /\ currentStep' <= pz.cur + 1
       /\ pz'.n <= 1]_vars

\* C8 as stated: play() called on an Idle controller and run to completion
\* with no other operation interleaved ends with currentStep = N, isPlaying
\* false, exactly N step notifications and one play-state(false).
C8_PlayCountsAsStated ==
  (run.on /\ run.done) =>
    /\ currentStep = Len(moves)
    /\ ~isPlaying
    /\ run.steps = Len(moves)
    /\ run.falses = 1

\* C8 amended: play() called on an Idle controller with no step awaiting an
\* animation, cursor c, and run to completion with no other operation
\* interleaved ends with currentStep = N and isPlaying false; it has emitted
\* N - c step notifications and one play-state(false) when c < N, and N + 1
\* step notifications and two play-state(false) when c >= N (it resets first).
C8_PlayCounts ==
  (run.on /\ run.done /\ run.quiet) =>
    /\ currentStep = Len(moves)
    /\ ~isPlaying
    /\ run.steps = (IF run.replay THEN Len(moves) + 1 ELSE Len(moves) - run.c0)
    /\ run.falses = (IF run.replay THEN 2 ELSE 1)

\* C8 witness: a play() started in the middle of the algorithm has finished.
C8_Witness ==
  /\ run.on /\ run.done /\ run.quiet
  /\ ~run.replay /\ run.c0 > 0 /\ run.steps > 0
  /\ lastOp = "complete"

\* C9: every play() invocation eventually leaves its loop.  A request that
\* clearQueue discards is never resolved, so a play() suspended on it never
\* leaves its loop: no play() may ever be in that position.
C9_PlayNeverStranded == "play" \notin stuck

\* C10: stepForward() while Playing, while an animation is in flight or with
\* the cursor at the end, and stepBackward() while Playing, while an
\* animation is in flight or with the cursor at 0, change nothing, emit no
\* notification and throw nothing.
C10_StepNoop ==
  [][((lastOp' = "stepForward"
         /\ (isPlaying \/ inflight # {} \/ currentStep >= Len(moves)))
      \/ (lastOp' = "stepBackward"
         /\ (isPlaying \/ inflight # {} \/ currentStep <= 0)))
     => /\ UNCHANGED <<faces, currentStep, isPlaying, playAbort, moves,
                       setupMoves, isAnimating, queue, inflight, tasks>>
        /\ out' = <<>>
        /\ err' = FALSE]_vars

\* C10 witness: stepForward() has been called while Playing.
C10_Witness == lastOp = "stepForward" /\ isPlaying /\ inflight # {}

\* C11: from an Idle controller with no animation in flight and the cursor at
\* c < length, stepForward() run to completion followed by stepBackward() run
\* to completion restores the exact grid and leaves the cursor at c.
C11_StepRoundTrip ==
  rt.phase = "done" => faces = rt.grid /\ currentStep = rt.c

\* C11 witness: such a pair has completed from a grid that was not solved.
C11_Witness == rt.phase = "done" /\ rt.grid # SolvedFaces /\ faces = rt.grid

\* C12: loadAlgorithm leaves the controller Idle with cursor 0, an empty
\* queue and the grid solved-plus-setup, emits the step notification
\* (0, length), and the cursor stays 0 until the next play or step request.
C12_LoadAlgorithm ==
  /\ lastOp = "loadAlgorithm" =>
        /\ ~isPlaying
        /\ currentStep = 0
        /\ queue = <<>>
        /\ faces = applyMoves(SolvedFaces, setupMoves)
        /\ seen.step = <<"step", 0, Len(moves)>>
  /\ ld => currentStep = 0

\* C13: reset() has the effect of pause() (abort flag set, Idle, play-state
\* notification false) followed by clearing the queue, cursor 0, grid
\* solved-plus-setup with the algorithm and setup lists unchanged, and one
\* step notification (0, length); the animation in flight is not touched.
C13_Reset ==
  [][lastOp' = "reset" =>
       /\ playAbort' /\ ~isPlaying'
       /\ queue' = <<>>
       /\ currentStep' = 0
       /\ faces' = applyMoves(SolvedFaces, setupMoves)
       /\ moves' = moves /\ setupMoves' = setupMoves
       /\ out' = << <<"playState", FALSE>>, <<"step", 0, Len(moves)>> >>
       /\ UNCHANGED <<isAnimating, inflight>>]_vars

\* C13 witness: reset() was called during playback of an algorithm with
\* setup moves, after the first move had been committed.
C13_Witness ==
  /\ lastOp = "reset" /\ inflight # {} /\ setupMoves # <<>>
  /\ seen.step = <<"step", 0, Len(moves)>> /\ faces # SolvedFaces

\* C14: play() while Playing changes nothing and emits nothing; play() on an
\* Idle controller whose cursor is at or past the end first restores cursor 0
\* and the solved-plus-setup grid and then plays from move 0: it notifies
\* step (0, length), and its first step applies and animates moves[0].
C14_Play ==
  [][lastOp' = "play" =>
       /\ isPlaying =>
             /\ UNCHANGED <<moves, setupMoves, currentStep, isPlaying, playAbort,
                            faces, isAnimating, queue, inflight, tasks>>
             /\ out' = <<>>
       /\ (~isPlaying /\ currentStep >= Len(moves)) =>
             /\ currentStep' = 0
             /\ \E i \in 1..Len(out') : out'[i] = <<"step", 0, Len(moves)>>
             /\ IF Len(moves) = 0
                THEN faces' = applyMoves(SolvedFaces, setupMoves) /\ ~isPlaying'
                ELSE /\ faces' = applyMove(applyMoves(SolvedFaces, setupMoves),
                                           moves[1])
                     /\ isPlaying'
                     /\ callOrder' # <<>>
                     /\ LET id == callOrder'[Len(callOrder')]
                        IN /\ tasks'[id] = "play"
                           /\ [move |-> moves[1], resolve |-> id]
                                \in inflight' \cup SeqRange(queue')]_vars

\* C14 witness: play() has been called with the cursor at the end of a loaded
\* algorithm and has started the replay from move 0.
C14_Witness ==
  /\ lastOp = "play" /\ run.on /\ run.replay /\ isPlaying
  /\ run.c0 = Len(moves) /\ currentStep = 0

\* C14 witness of the no-op: play() has been called while Playing.
C14_WitnessPlaying == lastOp = "play" /\ isPlaying /\ out = <<>>

\* C17: every change of the cursor is followed by a step notification with
\* the then-current cursor and length: whenever no step is in flight, the
\* most recent step notification (once one was emitted or the cursor has
\* left 0) equals (currentStep, moves.length).
C17_StepNotified ==
  (Live(tasks) = {} /\ (seen.step # <<>> \/ currentStep # 0)) =>
    seen.step = <<"step", currentStep, Len(moves)>>

\* C18: the most recent play-state notification carries the controller's
\* isPlaying flag.
C18_PlayStateNotified ==
  seen.play # <<>> => seen.play = <<"playState", isPlaying>>

\* C18 witness: a play loop has run to its end, so notifications for the
\* transition into Playing and for the one out of it have been emitted.
C18_Witness ==
  /\ lastOp = "complete" /\ ~isPlaying /\ run.on /\ run.done
  /\ seen.play = <<"playState", FALSE>>

\* C15: an animation lasts the nominal duration divided by the multiplier
\* most recently passed to setSpeed before it started, whatever setSpeed
\* calls are made while it is in flight: it is still in flight in every
\* frame before that time has passed, and it ends in the first frame at or
\* after it.
C15_SpeedAtStart ==
  /\ inflight # {} => now < ah.due
  /\ ah.done # <<>> => ah.done[1] <= ah.done[2] /\ ah.done[2] < ah.done[1] + FrameMs

\* C16: clearQueue() empties the queue and touches nothing else of the
\* animator: isAnimating and the animation in flight are unchanged and no
\* completion is signalled by it; a discarded request's completion never
\* fires; an animation leaves flight only by signalling its completion, and
\* no completion is signalled twice.
C16_ClearQueue ==
  [][/\ lastOp' = "clearQueue" =>
          /\ queue' = <<>>
          /\ UNCHANGED <<isAnimating, inflight, startTime, duration>>
          /\ ah'.fired = ah.fired
          /\ QueueIds(queue) \subseteq ah'.dropped
     /\ ah'.dropped \cap SeqRange(ah'.fired) = {}
     /\ \A req \in inflight \ inflight' :
          ah'.fired = Append(ah.fired, req.resolve)
     /\ \A i, j \in 1..Len(ah'.fired) :
          ah'.fired[i] = ah'.fired[j] => i = j]_vars

\* C16 witness: clearQueue() discarded a waiting request while an animation
\* was in flight, and that animation has since signalled its completion.
C16_Witness ==
  /\ ah.dropped # {}
  /\ \E id \in ah.kept : id \in SeqRange(ah.fired)

\* C19: for every move (6 faces, plain / prime / double, wide or not) and
\* every grid, applyMove(m) followed by applyMove(m.inverse()) returns all 54
\* facelets to their prior values.
C19_MoveThenInverse == trail.phase = "undone" => faces = trail.grid

\* C19 witness: a wide prime move has been applied to a scrambled grid and
\* undone.
C19_Witness ==
  /\ trail.phase = "undone" /\ trail.depth = MaxScramble
  /\ trail.move.wide /\ trail.move.prime /\ ~trail.move.double
  /\ trail.grid # SolvedFaces

\* C20: a plain or prime move (wide or not) applied 4 times, and a double
\* move applied 2 times, returns all 54 facelets to their prior values.
C20_MoveOrder ==
  (trail.phase = "turned" /\ trail.n = (IF trail.move.double THEN 2 ELSE 4))
    => faces = trail.grid

\* C20 witness: a wide plain move has been applied 4 times to a scrambled
\* grid, and it did change the grid on the way.
C20_Witness ==
  /\ trail.phase = "turned" /\ trail.n = 4 /\ trail.depth = MaxScramble
  /\ trail.move.wide /\ ~trail.move.prime /\ ~trail.move.double
  /\ trail.grid # SolvedFaces
  /\ applyMove(trail.grid, trail.move) # trail.grid

\* C21: undo() with an empty history changes neither grid nor history and
\* returns no move; otherwise it removes exactly the last recorded move,
\* returns it, records nothing, and leaves the grid that move was applied
\* to: after applyMoves(s) from any grid, |s| undos restore that grid and
\* the prior history.
C21_Undo ==
  [][lastOp' = "undo" =>
       LET t == hg'.target
           before == IF t = "model" THEN [faces |-> faces, history |-> history]
                     ELSE [faces |-> copy.faces, history |-> copy.history]
           after == IF t = "model" THEN [faces |-> faces', history |-> history']
                    ELSE [faces |-> copy'.faces, history |-> copy'.history]
           n == Len(before.history)
       IN IF n = 0
          THEN after = before /\ ret' = <<>>
          ELSE /\ after.history = SubSeq(before.history, 1, n - 1)
               /\ ret' = <<before.history[n]>>
               /\ after.faces = hg[t][n]]_vars

\* C21 witness: on a clone taken of a scrambled model (empty history, grid
\* not solved) a recorded move has been undone.
C21_Witness ==
  /\ lastOp = "undo" /\ hg.target = "copy" /\ ret # <<>>
  /\ copy.history = <<>> /\ copy.faces # SolvedFaces

\* C22: clone() returns a state whose 6 faces equal the original's, and any
\* later applyMove, applyMoves, undo or reset on either of the two leaves the
\* other's grid unchanged.
C22_Clone ==
  [][/\ lastOp' = "clone" =>
          copy'.exists /\ copy'.faces = faces /\ faces' = faces
     /\ (copy.exists
           /\ lastOp' \in {"applyMove", "applyMoves", "undo", "model.reset"}) =>
          IF hg'.target = "model"
          THEN copy'.faces = copy.faces
          ELSE faces' = faces]_vars

\* C22 witness: after clone() of a scrambled model, operations were applied,
\* one at least to the clone, and the two grids differ.
C22_Witness ==
  /\ copy.exists /\ hg.after = MaxAfterClone
  /\ copy.history # <<>> /\ Len(history) = MaxHistory
  /\ copy.faces # faces

\* The descriptors the notation assigns to a text, from position i on: one
\* per face letter, wide iff the letter is lower-case, prime iff the next
\* character is ', double iff the next character is 2.
RECURSIVE Described(_, _)
Described(t, i) ==
  IF i > Len(t) THEN <<>>
  ELSE IF t[i] \in SeqRange(FACES) \cup SeqRange(LowerFaces)
       THEN <<[face |-> IF t[i] \in SeqRange(FACES) THEN t[i]
                        ELSE FACES[CHOOSE k \in 1..6 : LowerFaces[k] = t[i]],
               prime |-> i < Len(t) /\ t[i + 1] = "'",
               double |-> i < Len(t) /\ t[i + 1] = "2",
               wide |-> t[i] \in SeqRange(LowerFaces)]>>
              \o Described(t, i + 1)
       ELSE Described(t, i + 1)

\* C23: parse emits exactly one descriptor per face letter, in order, with
\* wide, prime and double as the notation says, skips every other character,
\* never sets prime and double together, and yields the empty sequence for
\* an empty or all-whitespace text.
C23_Parse ==
  lastOp = "parse" =>
    /\ parsed = Described(input, 1)
    /\ \A i \in 1..Len(parsed) : ~(parsed[i].prime /\ parsed[i].double)
    /\ (\A i \in 1..Len(input) : input[i] = " ") => parsed = <<>>

\* C23 witness: the text r2 U' has been parsed into {R, wide, double} then
\* {U, prime}.
C23_Witness ==
  /\ lastOp = "parse"
  /\ input = <<"r", "2", " ", "U", "'">>
  /\ parsed = <<[face |-> "R", prime |-> FALSE, double |-> TRUE, wide |-> TRUE],
                [face |-> "U", prime |-> TRUE, double |-> FALSE, wide |-> FALSE]>>

\* C24: for every text of face letters, modifiers and whitespace,
\* parse(toString(parse(text))) is the same descriptor sequence as
\* parse(text).
C24_RoundTrip ==
  (lastOp = "reparse" /\ \A i \in 1..Len(input) : input[i] # "x") =>
    reparsed = parsed

\* C24 witness: a text with a wide double move and a prime move written
\* without a separator has gone through the round trip.
C24_Witness ==
  /\ lastOp = "reparse"
  /\ input = <<"r", "2", "U", "'", "'">>
  /\ printed = <<"r", "2", " ", "U", "'">>
  /\ reparsed = parsed

\* C25: MoveParser.inverse(s) holds the inverses of the moves of s in
\* reversed order; on every grid, s followed by inverse(s) gives the grid
\* back, and inverse(inverse(s)) gives the same grid as s.
C25_InverseSequence ==
  trail.phase \in {"sequence", "inverted", "twice"} =>
    LET s == trail.seq
        r == inverseMoves(s)
    IN /\ Len(r) = Len(s)
       /\ \A i \in 1..Len(s) :
            LET m == s[Len(s) + 1 - i]
            IN /\ r[i].face = m.face /\ r[i].wide = m.wide
               /\ r[i].double = m.double
               /\ r[i].prime = (~m.double /\ ~m.prime)
       /\ trail.phase = "inverted" => faces = trail.grid
       /\ trail.phase = "twice" => faces = applyMoves(trail.grid, s)

\* C25 witness: a sequence of three moves on three faces, one wide and one
\* double, has been applied to a scrambled grid and then inverted.
C25_Witness ==
  /\ trail.phase = "inverted" /\ trail.depth = MaxScramble
  /\ trail.seq = parse(<<"R", " ", "u", "'", " ", "F", "2">>)
  /\ trail.grid # SolvedFaces
  /\ applyMoves(trail.grid, trail.seq) # trail.grid
  /\ faces = trail.grid

\* The pairs of different facelets that lie on one corner or edge cubie.
SharedCubie ==
  {pair \in Facelets \X Facelets :
     pair[1] # pair[2] /\ CubieOf[pair[1]] = CubieOf[pair[2]]}

\* Where each sticker of a grid of 54 different stickers sits.
Where(g) == [s \in Facelets |-> CHOOSE q \in Facelets : g[q[1]][q[2]] = s]

\* C28: for each face and each of its plain, prime and double moves, the
\* face's own facelets and its bordering strips turn in the same sense: the
\* stickers that lie on one corner or edge cubie before applyMove lie on one
\* cubie after it.
C28_SameSense ==
  [][(lastOp' = "applyMove" /\ trail'.phase = "turned" /\ trail'.n = 1
        /\ ~trail'.move.wide) =>
       LET w == Where(trail'.stickers)
       IN \A pair \in SharedCubie :
            CubieOf[w[trail.stickers[pair[1][1]][pair[1][2]]]]
              = CubieOf[w[trail.stickers[pair[2][1]][pair[2][2]]]]]_vars

\* C29: for every face, wide or not, and every grid, the double move gives
\* the grid that the plain move gives when applied twice, and the prime move
\* the grid that the plain move gives when applied three times.  From the
\* initial grid the same holds of the 54 stickers one by one.
C29_DoubleAndPrime ==
  (trail.phase = "turned" /\ ~trail.move.prime /\ ~trail.move.double) =>
    LET double == Move(trail.move.face, FALSE, TRUE, trail.move.wide)
        prime == Move(trail.move.face, TRUE, FALSE, trail.move.wide)
    IN /\ trail.n = 2 =>
            /\ faces = applyMove(trail.grid, double)
            /\ trail.depth = 0 => trail.stickers = applyMove(StickerGrid, double)
       /\ trail.n = 3 =>
            /\ faces = applyMove(trail.grid, prime)
            /\ trail.depth = 0 => trail.stickers = applyMove(StickerGrid, prime)

\* C29 witness: a plain wide move has been applied three times to a
\* scrambled grid, which it changes.
C29_Witness ==
  /\ trail.phase = "turned" /\ trail.n = 3 /\ trail.depth = MaxScramble
  /\ trail.move.wide /\ ~trail.move.prime /\ ~trail.move.double
  /\ trail.grid # SolvedFaces
  /\ faces # trail.grid
  /\ faces = applyMove(trail.grid, inverse(trail.move))

\* Each face holds 9 values of the palette and each colour occurs 9 times.
PermutationOfSolved(g) ==
  /\ DOMAIN g = SeqRange(FACE_NAMES)
  /\ \A name \in SeqRange(FACE_NAMES) :
       /\ DOMAIN g[name] = 0..8
       /\ \A i \in 0..8 : \E c \in SeqRange(FACE_NAMES) : g[name][i] = COLORS[c]
  /\ \A c \in SeqRange(FACE_NAMES) :
       Cardinality({q \in Facelets : g[q[1]][q[2]] = COLORS[c]}) = 9

\* C30: every grid reached from the solved one by applyMove, applyMoves,
\* undo and reset, on the model or on its clone, is a permutation of the
\* solved grid: 9 defined palette values on each face, each colour 9 times.
C30_Permutation ==
  /\ PermutationOfSolved(faces)
  /\ copy.exists => PermutationOfSolved(copy.faces)

\* C30 witness: after recorded moves and an undo the model holds a grid
\* that is not the solved one, with a move still in its history.
C30_Witness ==
  /\ lastOp = "undo" /\ hg.target = "model" /\ ret # <<>>
  /\ history # <<>>
  /\ faces # SolvedFaces
  /\ \E name \in SeqRange(FACE_NAMES) :
       \E i \in 0..8 : faces[name][i] # COLORS[name]

\* The call found no usable progress: no blob, a corrupt one, or a read that
\* threw.
NothingStored ==
  answer.readThrows \/ answer.before.kind \in {"missing", "corrupt", "number"}

\* C26: a failure of the progress store never reaches the caller: no call
\* throws; with a missing or corrupt blob or a throwing read, isCompleted,
\* countCompleted and getProgress answer as with no progress stored; and
\* setCompleted leaves the store alone when the write throws.
C26_NoPropagation ==
  /\ ~answer.threw
  /\ (NothingStored /\ answer.op \in {"isCompleted", "countCompleted", "getProgress"})
       => (~answer.completed /\ answer.count = 0)
  /\ (answer.op = "setCompleted" /\ answer.writeThrows) => store = answer.before

\* C26, the part the code keeps: the three reading calls never throw and
\* answer as with no progress stored when nothing usable is stored.
C26_ReadsDegrade ==
  answer.op \in {"isCompleted", "countCompleted", "getProgress"} =>
    /\ ~answer.threw
    /\ NothingStored => (~answer.completed /\ answer.count = 0)

\* The requests the animator holds: the one in flight and the queued ones.
Pending(fl, q) == fl \cup SeqRange(q)

\* C27: in every step committed by play, stepForward or stepBackward the
\* model is mutated before the animation of the move is requested: the
\* request is preceded by applyMove of the same move, it is then held by the
\* animator, and the grid is the one the move gives; and no request appears
\* in a step that applies no move.
C27_MutationFirst ==
  [][LET base == IF lastOp' \in {"play", "togglePlay"}
                      /\ playAtEnd(currentStep, moves)
                 THEN SolvedPlusSetup(setupMoves)
                 ELSE faces
     IN /\ \A i \in 1..Len(calls') :
             calls'[i].call = "animateMove" =>
               /\ i > 1
               /\ calls'[i - 1] = [call |-> "applyMove", move |-> calls'[i].move]
               /\ [move |-> calls'[i].move,
                   resolve |-> callOrder'[Len(callOrder')]]
                     \in Pending(inflight', queue')
               /\ faces' = applyMove(base, calls'[i].move)
        /\ calls' = <<>> =>
             Pending(inflight', queue') \subseteq Pending(inflight, queue)]_vars

\* C27 witness: after an animation completed, the play loop has applied its
\* second move to the model and then requested its animation.
C27_Witness ==
  /\ lastOp = "complete" /\ isPlaying /\ currentStep = 1
  /\ Len(calls) = 2
  /\ calls[1] = [call |-> "applyMove", move |-> moves[2]]
  /\ calls[2] = [call |-> "animateMove", move |-> moves[2]]
  /\ \E req \in Pending(inflight, queue) : req.move = moves[2]

\* C31: no backlog builds up behind an animation: a play, pause, togglePlay,
\* stepForward or stepBackward call made while an animation is in flight adds
\* no request to the queue of not yet started animations, which stays empty.
C31_NoBacklog ==
  [][(inflight # {}
        /\ lastOp' \in {"play", "pause", "togglePlay", "stepForward",
                        "stepBackward"}) =>
       /\ Len(queue') <= Len(queue)
       /\ queue = <<>> => queue' = <<>>]_vars

\* C31, the part the code keeps: stepForward and stepBackward add no request
\* while an animation is in flight, and neither does pause.
C31_StepsAddNothing ==
  [][(inflight # {}
        /\ lastOp' \in {"pause", "stepForward", "stepBackward"}) =>
       queue' = queue]_vars

\* C32: once a card has initialised its body, every step notification of its
\* controller reaches both the card's highlight handler and the step counter
\* of the player controls.
C32_BothObservers ==
  \A c \in CardIds :
    cards[c].emitted # <<>> =>
      /\ cards[c].counter = cards[c].emitted
      /\ cards[c].highlight = cards[c].emitted

\* C32, the part the code keeps: the step counter is told every step.
C32_CounterTold ==
  \A c \in CardIds :
    cards[c].emitted # <<>> => cards[c].counter = cards[c].emitted

\* C33: at most one card of the list is expanded; expanding a card collapses
\* the one expanded before; collapsing a card pauses its controller.
C33_Accordion ==
  [][/\ Cardinality({c \in CardIds : cards'[c].expanded}) <= 1
     /\ \A c \in CardIds :
          /\ (~cards[c].expanded /\ cards'[c].expanded) =>
               \A d \in CardIds \ {c} : ~cards'[d].expanded
          /\ (cards[c].expanded /\ ~cards'[c].expanded /\ cards[c].controller
                /\ lastOp' = "toggle") =>
               (~cards'[c].isPlaying /\ cards'[c].playAbort
                  /\ cards'[c].button = <<FALSE>>)]_vars

\* C33 witness: a click on the header of the second card has expanded it
\* and collapsed the first, which was playing and is now paused with its
\* animation still running.
C33_Witness ==
  /\ lastOp = "toggle" /\ expandedCard = 2
  /\ cards[2].expanded /\ ~cards[1].expanded
  /\ cards[1].controller /\ cards[1].pending = "play"
  /\ ~cards[1].isPlaying /\ cards[1].playAbort
  /\ cards[1].button = <<FALSE>>

=============================================================================
